---- MODULE Spec2Model ----
(***************************************************************************)
(* Model of the Figma-to-PDF backend: the two tree extractors              *)
(* (services/figma_service.py, services/figma_parser.py) and their entry   *)
(* points, the output paths of the PDF generators, and the URL key         *)
(* extraction, the /generate handler and get_figma_file of main.py.        *)
(*                                                                         *)
(* JSON values are modelled as follows: a scalar is a string, a missing    *)
(* key is the string Absent, a JSON null / Python None is the string       *)
(* None, a list is a sequence, a mapping is a record.                      *)
(* Text that the code inspects is a sequence of one-character strings.     *)
(***************************************************************************)
EXTENDS Integers, Sequences, FiniteSets, TLC

VARIABLES
    file_json,   \* the file payload the Figma API holds
    svc,         \* outcome of the last extract_structure(file_json) call
    prs,         \* outcome of the last parse_figma_structure(file_json) call
    pff,         \* outcome of the last parse_figma_file_from_url call
    calls,       \* how many extractor calls were made on file_json (capped)
    figma_url,   \* the URL text a client sends
    parts,       \* how figma_url was put together (host, shape, key, ...)
    key_out,     \* outcome of the last extract_figma_key(figma_url) call
    fid_out,     \* outcome of the last file_id_from_url(figma_url) call
    resp,        \* the answer of POST /generate, once the request was made
    fetches,     \* requests sent to the Figma API
    pdfs,        \* PDF files written
    llm,         \* what the last parse_figma_with_llm(figma_url) call returned
    pfu,         \* what the last parse_figma_url(figma_url) call returned
    req,         \* the last entry-point request: which one, and the API's answer
    json_in,     \* the json_data of the last parse_figma_with_llm(figma_url, json_data) call
    llm_json,    \* what that call returned
    now,         \* the server's clock, in seconds
    jobs,        \* the PDF requests so far: generator, output path, written or not
    gff          \* the frame of a get_figma_file call: its locals and where it stands

vars == <<file_json, svc, prs, pff, calls, figma_url, parts, key_out, fid_out, resp, fetches, pdfs, llm, pfu, req, json_in, llm_json, now, jobs, gff>>
entry_vars == <<llm, pfu, req, json_in, llm_json>>
extract_vars == <<file_json, svc, prs, pff, calls>>
url_vars == <<figma_url, parts, key_out, fid_out, resp, fetches, pdfs>>
pdf_vars == <<now, jobs>>
retry_vars == <<gff>>
side_vars == <<pdf_vars, retry_vars>>

Absent == "<absent>"
None == "None"
\* Text (characters, file name, lastModified, URLs) is a sequence of
\* one-character strings; a missing text field is AbsentS, a null one NoneS.
AbsentS == <<Absent>>
NoneS == <<None>>

\* ------------------------------------------------------------------ bounds
MaxNodes == 2       \* nodes of a "wide" document (every node kind)
MaxDeepNodes == 4   \* nodes of a "deep" document (few node kinds)
MaxComps == 2       \* entries of the payload's components map
MaxCalls == 2       \* extractor calls made on one payload
MaxRequests == 1    \* POST /generate requests made with one URL
MaxJobs == 2        \* PDF requests (calls) made while one file is served
MaxClock == 1       \* seconds that pass while PDFs are requested
MaxRetries == 3     \* largest max_retries get_figma_file is called with

\* ------------------------------------------------------ input documents
\* A node is [id, type, name, characters, visible, box, children]; id is
\* the path of child positions from the document root, so ids are unique.
Proto(type, name, characters, visible, box) ==
    [type |-> type, name |-> name, characters |-> characters,
     visible |-> visible, box |-> box]

FullBox == [state |-> "present", x |-> "10", y |-> "20", width |-> "375", height |-> "812"]
NoBox == [state |-> "absent", x |-> Absent, y |-> Absent, width |-> Absent, height |-> Absent]

RootKinds ==
    { Proto("CANVAS", "Home", AbsentS, Absent, NoBox),
      Proto("CANVAS", Absent, AbsentS, Absent, NoBox),
      Proto("FRAME", "Stray", AbsentS, Absent, FullBox) }

InnerKinds ==
    { Proto("FRAME", "Login", AbsentS, Absent, FullBox),
      Proto("FRAME", "Hidden", AbsentS, "False", NoBox),
      Proto("COMPONENT", "Button", AbsentS, Absent, FullBox),
      Proto("INSTANCE", "Button", AbsentS, "True", FullBox),
      Proto("GROUP", "Group", AbsentS, Absent, FullBox),
      Proto("RECTANGLE", "Rect", AbsentS, Absent, FullBox),
      Proto("VECTOR", "Icon", AbsentS, Absent, NoBox),
      Proto("PAGE", "Sub", AbsentS, Absent, NoBox),
      Proto("ELLIPSE", "Dot", AbsentS, Absent, FullBox),
      Proto("TEXT", "Welcome", <<"H", "i">>, Absent, FullBox),
      Proto("TEXT", "Blank", <<>>, Absent, FullBox),
      Proto("TEXT", "Space", <<" ">>, Absent, FullBox),
      Proto("TEXT", "NoChars", AbsentS, Absent, NoBox) }

DeepRootKinds == { Proto("CANVAS", "Home", AbsentS, Absent, NoBox) }

DeepInnerKinds ==
    { Proto("FRAME", "Login", AbsentS, Absent, FullBox),
      Proto("TEXT", "Welcome", <<"H", "i">>, Absent, FullBox) }

MkNode(p, kids) ==
    [id |-> <<>>, type |-> p.type, name |-> p.name, characters |-> p.characters,
     visible |-> p.visible, box |-> p.box, children |-> kids]

\* Forests(n, top, inner): every ordered forest of exactly n nodes whose
\* roots are drawn from top and whose other nodes are drawn from inner.
RECURSIVE Forests(_, _, _)
Forests(n, top, inner) ==
    IF n = 0 THEN { <<>> }
    ELSE UNION { { <<MkNode(p, kids)>> \o rest :
                     p \in top,
                     kids \in Forests(k - 1, inner, inner),
                     rest \in Forests(n - k, top, inner) } : k \in 1..n }

\* Label(forest, prefix): the same forest with every id set to its path.
RECURSIVE Label(_, _)
Label(forest, prefix) ==
    [i \in 1..Len(forest) |->
        [forest[i] EXCEPT !.id = Append(prefix, i),
                          !.children = Label(forest[i].children, Append(prefix, i))]]

WideForests == UNION { Forests(n, RootKinds, InnerKinds) : n \in 0..MaxNodes }
DeepForests == UNION { Forests(n, DeepRootKinds, DeepInnerKinds) : n \in 0..MaxDeepNodes }

\* The components map, in insertion order (a Python dict keeps it).
CompIds == <<"1:1", "1:2", "1:3", "1:4">>
CompEntry(i) == [id |-> CompIds[i], name |-> "Button", description |-> "", remote |-> Absent]
\* an empty map, or one of MaxComps entries
ComponentMaps == { [i \in 1..n |-> CompEntry(i)] : n \in {0, MaxComps} }

\* File-level metadata: name, lastModified and the styles map (in order).
MetaFull ==
    [name |-> <<"A", "p", "p">>, lastModified |-> <<"t", "1">>,
     styles |-> << [id |-> "S1", styleType |-> "FILL"],
                   [id |-> "S2", styleType |-> "TEXT"],
                   [id |-> "S3", styleType |-> "FILL"] >>]
MetaBare == [name |-> AbsentS, lastModified |-> AbsentS, styles |-> <<>>]

MkPayload(doc, comps, meta) ==
    [name |-> meta.name, lastModified |-> meta.lastModified, styles |-> meta.styles,
     document |-> doc, components |-> comps]

\* The document field of the payload is missing, null, a list, or a
\* mapping with a children list.
WideDocuments ==
    { [kind |-> k, children |-> <<>>] : k \in {"missing", "null", "list"} }
    \cup { [kind |-> "mapping", children |-> Label(f, <<>>)] : f \in WideForests }
DeepDocuments == { [kind |-> "mapping", children |-> Label(f, <<>>)] : f \in DeepForests }

\* Hand-written documents for the cases the bounded forests are too small
\* for: a page whose name is the empty string, a hidden frame that has
\* children, a text below a frame below a group, and a frame with two
\* children of which one is a text.
CanvasHome == Proto("CANVAS", "Home", AbsentS, Absent, NoBox)
CanvasEmptyName == Proto("CANVAS", "", AbsentS, Absent, NoBox)
FrameLogin == Proto("FRAME", "Login", AbsentS, Absent, FullBox)
FrameHidden == Proto("FRAME", "Hidden", AbsentS, "False", NoBox)
GroupKind == Proto("GROUP", "Group", AbsentS, Absent, FullBox)
RectKind == Proto("RECTANGLE", "Rect", AbsentS, Absent, FullBox)
TextWelcome == Proto("TEXT", "Welcome", <<"H", "i">>, Absent, FullBox)
ScenarioForests ==
    { << MkNode(CanvasEmptyName, << MkNode(FrameLogin, << MkNode(TextWelcome, <<>>) >>) >>) >>,
      << MkNode(CanvasHome, << MkNode(FrameHidden, << MkNode(FrameLogin, <<>>), MkNode(TextWelcome, <<>>) >>) >>) >>,
      << MkNode(CanvasHome, << MkNode(GroupKind, << MkNode(FrameLogin, << MkNode(TextWelcome, <<>>) >>) >>) >>) >>,
      << MkNode(CanvasHome, << MkNode(FrameLogin, << MkNode(TextWelcome, <<>>), MkNode(RectKind, <<>>) >>) >>) >> }
ScenarioDocuments == { [kind |-> "mapping", children |-> Label(f, <<>>)] : f \in ScenarioForests }

\* payloads without file-level metadata carry a document of at most one node
BareDocuments ==
    { d \in WideDocuments : \A i \in 1..Len(d.children) : i = 1 /\ d.children[i].children = <<>> }

\* deep and hand-written documents come with the components map of MaxComps entries
Payloads ==
    { MkPayload(d, c, MetaFull) : d \in WideDocuments, c \in ComponentMaps }
    \cup { MkPayload(d, [i \in 1..MaxComps |-> CompEntry(i)], MetaFull) :
              d \in DeepDocuments \cup ScenarioDocuments }
    \cup { MkPayload(d, c, MetaBare) : d \in BareDocuments, c \in ComponentMaps }

\* ------------------------------------------- services/figma_service.py
LayerTypes == {"FRAME", "COMPONENT", "INSTANCE", "GROUP", "RECTANGLE", "VECTOR", "PAGE"}

\* dict.get(key) / dict.get(key, default) on a scalar field
Get(v) == IF v = Absent THEN None ELSE v
GetOr(v, default) == IF v = Absent THEN default ELSE v
GetOrS(v, default) == IF v = AbsentS THEN default ELSE v

\* abs_bounds = node.get("absoluteBoundingBox") or {}
abs_bounds(node) == IF node.box.state = "present" THEN node.box ELSE NoBox

\* LayerRecord counting the children of the first child along with the
\* node's own children
LayerRecord_grandchildren(node, page_name) ==
    [id |-> node.id, type |-> node.type, name |-> GetOr(node.name, ""),
     page |-> page_name,
     x |-> Get(abs_bounds(node).x), y |-> Get(abs_bounds(node).y),
     width |-> Get(abs_bounds(node).width), height |-> Get(abs_bounds(node).height),
     visible |-> GetOr(node.visible, "True"),
     children_count |-> IF node.children = <<>> THEN 0
                        ELSE Len(node.children) + Len(node.children[1].children)]

LayerRecord(node, page_name) ==
    [id |-> node.id, type |-> node.type, name |-> GetOr(node.name, ""),
     page |-> page_name,
     x |-> Get(abs_bounds(node).x), y |-> Get(abs_bounds(node).y),
     width |-> Get(abs_bounds(node).width), height |-> Get(abs_bounds(node).height),
     visible |-> GetOr(node.visible, "True"),
     children_count |-> Len(node.children)]

TextRecord(node, page_name) ==
    [id |-> node.id, page |-> page_name, name |-> GetOr(node.name, ""),
     characters |-> GetOrS(node.characters, <<>>),
     absoluteBoundingBox |-> abs_bounds(node)]

RECURSIVE walk_nodes(_, _, _)
RECURSIVE walk_children(_, _, _, _)
\* _walk_nodes recursing into the children before appending the node's
\* own records (post-order)
walk_nodes_postorder(node, page_name, collector) ==
    LET c0 == walk_children(node.children, 1, page_name, collector)
        c1 == IF node.type \in LayerTypes
              THEN [c0 EXCEPT !.layers = Append(@, LayerRecord(node, page_name))]
              ELSE c0
    IN IF node.type = "TEXT"
       THEN [c1 EXCEPT !.text_nodes = Append(@, TextRecord(node, page_name))]
       ELSE c1

\* _walk_nodes that leaves out a node with visible = false and all that is
\* below it
walk_nodes_visible_only(node, page_name, collector) ==
    LET c1 == IF node.type \in LayerTypes
              THEN [collector EXCEPT !.layers = Append(@, LayerRecord(node, page_name))]
              ELSE collector
        c2 == IF node.type = "TEXT"
              THEN [c1 EXCEPT !.text_nodes = Append(@, TextRecord(node, page_name))]
              ELSE c1
    IN IF node.visible = "False" THEN collector
       ELSE walk_children(node.children, 1, page_name, c2)

\* _walk_nodes: append the node's own records, then recurse into children
walk_nodes(node, page_name, collector) ==
    LET c1 == IF node.type \in LayerTypes
              THEN [collector EXCEPT !.layers = Append(@, LayerRecord(node, page_name))]
              ELSE collector
        c2 == IF node.type = "TEXT"
              THEN [c1 EXCEPT !.text_nodes = Append(@, TextRecord(node, page_name))]
              ELSE c1
    IN walk_children(node.children, 1, page_name, c2)

\* the loop "for child in node.get('children', [])" from position i on
walk_children(kids, i, page_name, collector) ==
    IF i > Len(kids) THEN collector
    ELSE walk_children(kids, i + 1, page_name, walk_nodes(kids[i], page_name, collector))

ComponentRecord(entry) ==
    [id |-> entry.id, name |-> entry.name, description |-> entry.description,
     document |-> GetOr(entry.remote, "False")]

\* NewResult with the lists kept from the previous call, as a result dict
\* hoisted to module level (or a mutable default argument) would do
NewResult_stale(fj) ==
    [status |-> "ok",
     file_name |-> IF fj.name = AbsentS THEN NoneS ELSE fj.name,
     last_modified |-> IF fj.lastModified = AbsentS THEN NoneS ELSE fj.lastModified,
     pages |-> IF svc.status = "ok" THEN svc.pages ELSE <<>>,
     layers |-> IF svc.status = "ok" THEN svc.layers ELSE <<>>,
     text_nodes |-> IF svc.status = "ok" THEN svc.text_nodes ELSE <<>>,
     components |-> <<>>,
     styles |-> fj.styles, interactions |-> <<>>]

\* NewResult that starts from a placeholder page instead of no pages
NewResult_placeholder(fj) ==
    [status |-> "ok",
     file_name |-> IF fj.name = AbsentS THEN NoneS ELSE fj.name,
     last_modified |-> IF fj.lastModified = AbsentS THEN NoneS ELSE fj.lastModified,
     pages |-> << [id |-> <<0>>, name |-> "Page"] >>,
     layers |-> <<>>, text_nodes |-> <<>>, components |-> <<>>,
     styles |-> fj.styles, interactions |-> <<>>]

\* the result dict as extract_structure creates it, before the walk
NewResult(fj) ==
    [status |-> "ok",
     file_name |-> IF fj.name = AbsentS THEN NoneS ELSE fj.name,
     last_modified |-> IF fj.lastModified = AbsentS THEN NoneS ELSE fj.lastModified,
     pages |-> <<>>, layers |-> <<>>, text_nodes |-> <<>>, components |-> <<>>,
     styles |-> fj.styles, interactions |-> <<>>]

\* the loop over document.get("children", []) from position i on
RECURSIVE walk_pages(_, _, _)
walk_pages(pages, i, result) ==
    IF i > Len(pages) THEN result
    ELSE LET page == pages[i]
             page_name == GetOr(page.name, "Page")
             r1 == [result EXCEPT !.pages = Append(@, [id |-> page.id, name |-> page_name])]
         IN walk_pages(pages, i + 1, walk_children(page.children, 1, page_name, r1))

Raised(kind) == [status |-> kind]

extract_structure(fj) ==
    IF fj.document.kind \in {"null", "list"} THEN Raised("AttributeError")
    ELSE LET r == walk_pages(fj.document.children, 1, NewResult(fj))
         IN [r EXCEPT !.components = [i \in 1..Len(fj.components) |-> ComponentRecord(fj.components[i])]]

\* a walk that takes the children out of the document as it visits them
\* (document.pop("children")) instead of reading them
file_json_after_extract_popped(fj) ==
    IF fj.document.kind = "mapping" THEN [fj EXCEPT !.document.children = <<>>] ELSE fj
\* The payload as extract_structure leaves it.  extract_structure and
\* _walk_nodes only read the payload and its nodes (dict.get, iteration,
\* len); every store goes into the result dict and its lists.
file_json_after_extract(fj) == fj

\* -------------------------------------------------------- hashing
\* hashlib digests are modelled by a deterministic mixing function of the
\* byte string that yields hex digits; only determinism, dependence on the
\* whole input string and the digest's width are kept from md5 / sha1.
Alphabet ==
    << "0", "1", "2", "3", "4", "5", "6", "7", "8", "9", "a", "b", "c",
       "d", "e", "f", "g", "h", "i", "j", "k", "l", "m", "n", "o", "p",
       "q", "r", "s", "t", "u", "v", "w", "x", "y", "z", "A", "B", "C",
       "D", "E", "F", "G", "H", "I", "J", "K", "L", "M", "N", "O", "P",
       "Q", "R", "S", "T", "U", "V", "W", "X", "Y", "Z", " ", ":", "/",
       "-", ".", "_", "?", "=", "\\" >>
HexDigits == <<"0", "1", "2", "3", "4", "5", "6", "7", "8", "9", "a", "b", "c", "d", "e", "f">>
OrdTable ==
    [c \in { Alphabet[i] : i \in 1..Len(Alphabet) } |-> CHOOSE i \in 1..Len(Alphabet) : Alphabet[i] = c]
Ord(c) == OrdTable[c]

\* one pass over the bytes of s, starting from h
RECURSIVE Mix(_, _, _, _)
Mix(s, i, h, mult) ==
    IF i > Len(s) THEN h
    ELSE Mix(s, i + 1, (h * mult + Ord(s[i])) % 65521, mult)

\* the j-th hex digit of the digest whose mixed state is h
HexDigit(h, j) == HexDigits[(((h + j) * ((h % 97) + j)) % 16) + 1]

\* hashlib.md5(s).hexdigest()[:n] and hashlib.sha1(s).hexdigest()[:n]
md5_hex(s, n) == LET h == Mix(s, 1, Len(s), 31) IN [j \in 1..n |-> HexDigit(h, j)]
sha1_hex(s, n) == LET h == Mix(s, 1, Len(s) + 7, 37) IN [j \in 1..n |-> HexDigit(h, j)]

\* str(n) for a natural number, as characters
RECURSIVE str_int(_)
str_int(n) == IF n < 10 THEN <<HexDigits[n + 1]>> ELSE str_int(n \div 10) \o <<HexDigits[(n % 10) + 1]>>

\* str(x) for a text value that may be None
str_text(s) == IF s = NoneS THEN <<"N", "o", "n", "e">> ELSE s

\* --------------------------------------------- services/figma_parser.py
IsSpace(c) == c \in {" ", "\t", "\n"}
RECURSIVE lstrip(_)
lstrip(s) == IF s # <<>> /\ IsSpace(Head(s)) THEN lstrip(Tail(s)) ELSE s
RECURSIVE rstrip(_)
rstrip(s) == IF s # <<>> /\ IsSpace(s[Len(s)]) THEN rstrip(SubSeq(s, 1, Len(s) - 1)) ELSE s
\* str.strip()
strip(s) == rstrip(lstrip(s))

\* bounds = node.get("absoluteBoundingBox", {}); bounds.get(field, 0)
FrameData(node, page_name) ==
    LET bounds == IF node.box.state = "absent" THEN NoBox ELSE node.box
    IN [name |-> GetOr(node.name, ""), page |-> page_name, type |-> node.type,
        width |-> GetOr(bounds.width, "0"), height |-> GetOr(bounds.height, "0"),
        x |-> GetOr(bounds.x, "0"), y |-> GetOr(bounds.y, "0"),
        children_count |-> Len(node.children),
        visible |-> GetOr(node.visible, "True")]

RECURSIVE walk_node(_, _, _)
RECURSIVE walk_node_children(_, _, _, _)
\* extract_frames_from_page.walk_node
walk_node(node, page_name, frames) ==
    LET f1 == IF node.type = "FRAME" THEN Append(frames, FrameData(node, page_name)) ELSE frames
    IN walk_node_children(node.children, 1, page_name, f1)

walk_node_children(kids, i, page_name, frames) ==
    IF i > Len(kids) THEN frames
    ELSE walk_node_children(kids, i + 1, page_name, walk_node(kids[i], page_name, frames))

extract_frames_from_page(page, page_name) == walk_node(page, page_name, <<>>)

ComponentData(node, page_name) ==
    [name |-> GetOr(node.name, ""), type |-> node.type, page |-> page_name,
     id |-> node.id, description |-> ""]

TextData(node, page_name) ==
    [content |-> GetOrS(node.characters, <<>>), name |-> GetOr(node.name, ""),
     page |-> page_name]

RECURSIVE walk_content(_, _, _)
RECURSIVE walk_content_children(_, _, _, _)
\* extract_content_from_page.walk_content; acc is [components, text_nodes]
walk_content(node, page_name, acc) ==
    LET a1 == IF node.type \in {"COMPONENT", "INSTANCE"}
              THEN [acc EXCEPT !.components = Append(@, ComponentData(node, page_name))]
              ELSE acc
        text_content == GetOrS(node.characters, <<>>)
        a2 == IF node.type = "TEXT" /\ strip(text_content) # <<>>
              THEN [a1 EXCEPT !.text_nodes = Append(@, TextData(node, page_name))]
              ELSE a1
    IN walk_content_children(node.children, 1, page_name, a2)

walk_content_children(kids, i, page_name, acc) ==
    IF i > Len(kids) THEN acc
    ELSE walk_content_children(kids, i + 1, page_name, walk_content(kids[i], page_name, acc))

extract_content_from_page(page, page_name) ==
    walk_content(page, page_name, [components |-> <<>>, text_nodes |-> <<>>])

\* the loop over document.get("children", []) of parse_figma_structure;
\* acc is [pages, frames, components, text_nodes]
RECURSIVE parse_pages(_, _, _)
parse_pages(pages, i, acc) ==
    IF i > Len(pages) THEN acc
    ELSE LET page == pages[i]
             page_name == GetOr(page.name, "Page")
             content == extract_content_from_page(page, page_name)
         IN IF page.type = "CANVAS"
            THEN parse_pages(pages, i + 1,
                    [pages |-> Append(acc.pages, page_name),
                     frames |-> acc.frames \o extract_frames_from_page(page, page_name),
                     components |-> acc.components \o content.components,
                     text_nodes |-> acc.text_nodes \o content.text_nodes])
            ELSE parse_pages(pages, i + 1, acc)

\* colors = set of the style ids whose styleType is FILL.  list(colors)
\* is kept as the set: its order is fixed by the set's contents and the
\* interpreter's string hash seed, which does not change within a process.
FillColors(styles) == { styles[i].id : i \in { k \in 1..Len(styles) : styles[k].styleType = "FILL" } }

content_hash(file_name, last_modified, frames, components) ==
    md5_hex(file_name \o last_modified \o str_int(Len(frames)) \o str_int(Len(components)), 8)

parse_figma_structure(fd) ==
    IF fd.document.kind \in {"null", "list"} THEN Raised("AttributeError")
    ELSE LET file_name == GetOrS(fd.name, <<"U", "n", "t", "i", "t", "l", "e", "d">>)
             last_modified == GetOrS(fd.lastModified, <<>>)
             acc == parse_pages(fd.document.children, 1,
                        [pages |-> <<>>, frames |-> <<>>, components |-> <<>>, text_nodes |-> <<>>])
         IN [status |-> "ok",
             file_name |-> file_name,
             last_modified |-> last_modified,
             content_hash |-> content_hash(file_name, last_modified, acc.frames, acc.components),
             pages |-> acc.pages,
             frames |-> acc.frames,
             components |-> acc.components,
             text_nodes |-> acc.text_nodes,
             colors |-> FillColors(fd.styles),
             total_pages |-> Len(acc.pages),
             total_frames |-> Len(acc.frames),
             total_components |-> Len(acc.components),
             total_text_nodes |-> Len(acc.text_nodes)]

\* The payload as parse_figma_structure leaves it: the function and its
\* two page walkers only read it and append to lists of their own.
file_json_after_parse(fd) == fd

\* ------------------------------------------------------ regular expressions
Lower == {"a", "b", "c", "d", "e", "f", "g", "h", "i", "j", "k", "l", "m", "n", "o", "p", "q", "r", "s", "t", "u", "v", "w", "x", "y", "z"}
Upper == {"A", "B", "C", "D", "E", "F", "G", "H", "I", "J", "K", "L", "M", "N", "O", "P", "Q", "R", "S", "T", "U", "V", "W", "X", "Y", "Z"}
Digit == {"0", "1", "2", "3", "4", "5", "6", "7", "8", "9"}
\* the character class [a-zA-Z0-9]
AlnumClass == Lower \cup Upper \cup Digit
\* the character class \d
DigitClass == Digit

\* the literal lit occurs in s at position i
MatchAt(s, i, lit) ==
    /\ i + Len(lit) - 1 <= Len(s)
    /\ \A k \in 1..Len(lit) : s[i + k - 1] = lit[k]
\* the last position of the longest run of class characters that starts
\* at position i (i - 1 when there is none)
RECURSIVE RunEnd(_, _, _)
RunEnd(s, i, class) ==
    IF i <= Len(s) /\ s[i] \in class THEN RunEnd(s, i + 1, class) ELSE i - 1

NoMatch == [matched |-> FALSE, group |-> <<>>]
\* re.search of "<one of lits>(<class>+)" in s from position p on: the
\* leftmost match, its group taken greedily
RECURSIVE re_search_from(_, _, _, _)
re_search_from(lits, class, s, p) ==
    IF p > Len(s) THEN NoMatch
    ELSE LET hits == { lit \in lits : MatchAt(s, p, lit) /\ RunEnd(s, p + Len(lit), class) >= p + Len(lit) }
         IN IF hits = {} THEN re_search_from(lits, class, s, p + 1)
            ELSE LET lit == CHOOSE l \in hits : TRUE
                 IN [matched |-> TRUE,
                     group |-> SubSeq(s, p + Len(lit), RunEnd(s, p + Len(lit), class))]
re_search(lits, class, s) == re_search_from(lits, class, s, 1)

\* s.split(sep)[0]
RECURSIVE split_first(_, _)
split_first(s, sep) ==
    IF s = <<>> \/ Head(s) = sep THEN <<>> ELSE <<Head(s)>> \o split_first(Tail(s), sep)

\* ------------------------------- services/figma_service.py: entry points
FileLiteral == { <<"/", "f", "i", "l", "e", "/">> }
\* file_id_from_url: re.search(r'/file/([a-zA-Z0-9]+)', url)
file_id_from_url(url) ==
    LET m == re_search(FileLiteral, AlnumClass, url)
    IN IF ~m.matched THEN Raised("ValueError") ELSE [status |-> "ok", value |-> m.group]

document_hash(url, structure) == sha1_hex(url \o str_text(structure.last_modified), 12)

\* parse_figma_file_from_url; fetched is what fetch_figma_file does with
\* the file id: it returns the payload or raises
parse_figma_file_from_url(url, fetched) ==
    LET file_id == file_id_from_url(url)
        structure == extract_structure(fetched.json)
    IN IF file_id.status # "ok" THEN [status |-> file_id.status, figma_url |-> url]
       ELSE IF fetched.status # "ok" THEN [status |-> fetched.status, figma_url |-> url]
       ELSE IF structure.status # "ok" THEN [status |-> structure.status, figma_url |-> url]
       ELSE [status |-> "ok", figma_url |-> url, structure |-> structure,
             document_hash |-> document_hash(url, structure)]

\* How the Figma API answers GET /v1/files/<id>: with the file (200), with
\* an error status (403 when the token is missing or wrong, 404), or not
\* at all (network error).
ApiAnswers == {"200", "403", "404", "ConnectionError"}

\* fetch_figma_file: requests.get raises on a network error and
\* raise_for_status raises HTTPError on a 4xx answer
fetch_figma_file(api, remote) ==
    IF api = "ConnectionError" THEN Raised("ConnectionError")
    ELSE IF api # "200" THEN Raised("HTTPError")
    ELSE [status |-> "ok", json |-> remote]

\* a value counts as true in "if value" / "value or default"
Truthy(v) == v \notin {"False", None, ""}

FrameWith == <<"F", "r", "a", "m", "e", " ", "w", "i", "t", "h", " ">>
Elements == <<" ", "e", "l", "e", "m", "e", "n", "t", "s">>
\* the entry convert_figma_to_pdf_format makes for a visible FRAME layer
KeyFrame(layer) ==
    [name |-> layer.name,
     description |-> FrameWith \o str_int(layer.children_count) \o Elements]

\* the loop over figma_data["layers"] from position i on
RECURSIVE visible_frames(_, _)
visible_frames(layers, i) ==
    IF i > Len(layers) THEN <<>>
    ELSE (IF layers[i].type = "FRAME" /\ Truthy(layers[i].visible)
          THEN <<KeyFrame(layers[i])>> ELSE <<>>) \o visible_frames(layers, i + 1)

\* infer_app_type_from_content: none of its keywords occurs in the URLs,
\* frame names and texts used here, so its last branch is the one taken
AppType == <<"B", "u", "s", "i", "n", "e", "s", "s", " ", "P", "l", "a", "t", "f", "o", "r", "m">>
\* app_type.lower()
AppTypeLower == <<"b", "u", "s", "i", "n", "e", "s", "s", " ", "p", "l", "a", "t", "f", "o", "r", "m">>

MainFrame == [name |-> "Main Frame", description |-> <<"P", "r", "i", "m", "a", "r", "y", " ", "i", "n", "t", "e", "r", "f", "a", "c", "e">>]

\* generate_user_flow_from_frames takes f["name"].split()[0] of each of
\* the first five frames: IndexError for a name that holds no word
user_flow_raises(frames) ==
    \E i \in 1..Len(frames) : i <= 5 /\ frames[i].name \in {"", " "}

FileWith == <<"F", "i", "g", "m", "a", " ", "d", "e", "s", "i", "g", "n", " ", "f", "i", "l", "e", " ", "w", "i", "t", "h", " ">>
FramesAnd == <<" ", "f", "r", "a", "m", "e", "s", " ", "a", "n", "d", " ", "c", "o", "m", "p", "r", "e", "h", "e", "n", "s", "i", "v", "e", " ">> \o AppTypeLower \o <<" ", "f", "u", "n", "c", "t", "i", "o", "n", "a", "l", "i", "t", "y">>

\* convert_figma_to_pdf_format: the name, project_name, description,
\* category and pages entries of the dict it returns, or the exception
\* of one of its helpers
convert_figma_to_pdf_format(figma_data, url) ==
    LET frames == visible_frames(figma_data.layers, 1)
    IN IF user_flow_raises(frames) THEN Raised("IndexError")
       ELSE [status |-> "ok", source |-> "figma",
             name |-> figma_data.file_name,
             project_name |-> figma_data.file_name,
             description |-> FileWith \o str_int(Len(frames)) \o FramesAnd,
             category |-> AppType,
             pages |-> << [name |-> "Main Design Flow",
                           key_frames |-> IF frames # <<>>
                                          THEN SubSeq(frames, 1, IF Len(frames) < 6 THEN Len(frames) ELSE 6)
                                          ELSE <<MainFrame>>] >>]

\* str.upper() on hex digits
upper(s) ==
    [i \in 1..Len(s) |->
        CASE s[i] = "a" -> "A" [] s[i] = "b" -> "B" [] s[i] = "c" -> "C"
          [] s[i] = "d" -> "D" [] s[i] = "e" -> "E" [] s[i] = "f" -> "F"
          [] OTHER -> s[i]]

\* generate_fallback_from_url called without json_data: the name,
\* project_name, description, category and pages entries of its dict
generate_fallback_from_url(url) ==
    LET url_hash == md5_hex(url, 6)
    IN [status |-> "ok", source |-> "fallback",
        name |-> AppType \o <<" ">> \o upper(url_hash),
        project_name |-> AppType \o <<" ">> \o upper(url_hash),
        description |-> <<"A", "d", "v", "a", "n", "c", "e", "d", " ">> \o AppTypeLower \o <<" ", "a", "p", "p", "l", "i", "c", "a", "t", "i", "o", "n", " ", "w", "i", "t", "h", " ", "m", "o", "d", "e", "r", "n", " ", "f", "e", "a", "t", "u", "r", "e", "s", " ", "a", "n", "d", " ", "u", "s", "e", "r", "-", "c", "e", "n", "t", "r", "i", "c", " ", "d", "e", "s", "i", "g", "n">>,
        category |-> AppType,
        pages |-> << [name |-> "Business Platform Flow",
                      key_frames |-> << [name |-> "Business Platform Dashboard", description |-> <<"M", "a", "i", "n", " ">> \o AppTypeLower \o <<" ", "i", "n", "t", "e", "r", "f", "a", "c", "e">>],
                                        [name |-> "Business Platform Management", description |-> <<"C", "o", "r", "e", " ">> \o AppTypeLower \o <<" ", "f", "u", "n", "c", "t", "i", "o", "n", "a", "l", "i", "t", "y">>],
                                        [name |-> "Business Platform Settings", description |-> <<"C", "o", "n", "f", "i", "g", "u", "r", "a", "t", "i", "o", "n", " ", "a", "n", "d", " ", "p", "r", "e", "f", "e", "r", "e", "n", "c", "e", "s">>] >>] >>]

\* parse_figma_with_llm with the except clause left out
parse_figma_with_llm_uncaught(url, api, remote) ==
    LET figma_data == parse_figma_file_from_url(url, fetch_figma_file(api, remote))
    IN IF figma_data.status = "ok"
       THEN convert_figma_to_pdf_format(figma_data.structure, url)
       ELSE Raised(figma_data.status)

\* parse_figma_with_llm called without json_data: any exception of
\* parse_figma_file_from_url or of convert_figma_to_pdf_format is caught
\* and answered with the fallback
parse_figma_with_llm(url, api, remote) ==
    LET figma_data == parse_figma_file_from_url(url, fetch_figma_file(api, remote))
        converted_data == convert_figma_to_pdf_format(figma_data.structure, url)
    IN IF figma_data.status = "ok" /\ converted_data.status = "ok"
       THEN converted_data
       ELSE generate_fallback_from_url(url)

\* A value of an uploaded json_data mapping is <<t, v>>: its JSON type and
\* its content.  json_data = None and json_data = {} both skip the merge
\* and are the mapping without keys.
JStr(s) == <<"str", s>>
JList(l) == <<"list", l>>
JInt(n) == <<"int", n>>
JNull == <<"null", 0>>
NoJson == << >>

\* "if value": Python's truth value of a JSON value
json_truthy(j) ==
    CASE j[1] = "null" -> FALSE
      [] j[1] = "int" -> j[2] # 0
      [] OTHER -> j[2] # << >>

\* the dict of a returned record, every value with its JSON type
as_dict(rec) ==
    [name |-> IF rec.name = NoneS THEN JNull ELSE JStr(rec.name),
     project_name |-> IF rec.project_name = NoneS THEN JNull ELSE JStr(rec.project_name),
     description |-> JStr(rec.description),
     category |-> JStr(rec.category),
     pages |-> JList(rec.pages)]

\* the merge loop with "if value" left out
merge_json_data_all(result, json_data) ==
    [key \in DOMAIN result \cup DOMAIN json_data |->
        IF key \in DOMAIN json_data THEN json_data[key] ELSE result[key]]

\* "if json_data: for key, value in json_data.items(): if value:
\* result[key] = value", as both parse_figma_with_llm and
\* generate_fallback_from_url run it
merge_json_data(result, json_data) ==
    LET copied == { key \in DOMAIN json_data : json_truthy(json_data[key]) }
    IN [key \in DOMAIN result \cup copied |->
           IF key \in copied THEN json_data[key] ELSE result[key]]

\* parse_figma_with_llm called with json_data: the merge runs on the
\* converted record inside the try, or on the fallback record inside
\* generate_fallback_from_url
parse_figma_with_llm_json_data(url, json_data, api, remote) ==
    LET figma_data == parse_figma_file_from_url(url, fetch_figma_file(api, remote))
        converted_data == convert_figma_to_pdf_format(figma_data.structure, url)
    IN IF figma_data.status = "ok" /\ converted_data.status = "ok"
       THEN [status |-> "ok", source |-> "figma",
             data |-> merge_json_data(as_dict(converted_data), json_data)]
       ELSE [status |-> "ok", source |-> "fallback",
             data |-> merge_json_data(as_dict(generate_fallback_from_url(url)), json_data)]

\* ---------------------------- services/figma_parser.py: entry points
\* fetch_figma_data: the same /file/ pattern, then the GET; any status
\* other than 200 raises
fetch_figma_data(url, api, remote) ==
    IF ~re_search(FileLiteral, AlnumClass, url).matched THEN Raised("ValueError")
    ELSE IF api = "ConnectionError" THEN Raised("ConnectionError")
    ELSE IF api # "200" THEN Raised("Exception")
    ELSE [status |-> "ok", json |-> remote]

\* the "- {page}: {len(page_frames)} frames" lines of page_structure, one
\* per entry of pages: page_frames are the frames whose page is that name
page_structure(parsed_data) ==
    [i \in 1..Len(parsed_data.pages) |->
        [page |-> parsed_data.pages[i],
         frames |-> Cardinality({ k \in 1..Len(parsed_data.frames) :
                                    parsed_data.frames[k].page = parsed_data.pages[i] })]]

\* generate_dynamic_content: the fields it copies from the parsed
\* structure (its four analysis texts are renderings of the same fields)
generate_dynamic_content(parsed_data) ==
    [status |-> "ok", file_name |-> parsed_data.file_name,
     content_hash |-> parsed_data.content_hash,
     page_structure |-> page_structure(parsed_data),
     frames |-> parsed_data.frames, components |-> parsed_data.components,
     raw_data |-> parsed_data]

\* what parse_figma_url returns from its except branch
ErrorContent ==
    [status |-> "ok",
     file_name |-> <<"F", "i", "g", "m", "a", " ", "A", "P", "I", " ", "E", "r", "r", "o", "r">>,
     content_hash |-> <<"e", "r", "r", "o", "r">>,
     page_structure |-> << >>,
     frames |-> <<>>, components |-> <<>>, raw_data |-> [status |-> "empty"]]

\* parse_figma_url behind a memo of its last good answer for the URL
parse_figma_url_memo(url, api, remote) ==
    LET figma_data == fetch_figma_data(url, api, remote)
        parsed_structure == parse_figma_structure(figma_data.json)
    IN IF pfu.status = "ok" /\ pfu.raw_data.status = "ok" THEN pfu
       ELSE IF figma_data.status # "ok" THEN ErrorContent
       ELSE IF parsed_structure.status # "ok" THEN ErrorContent
       ELSE generate_dynamic_content(parsed_structure)

\* parse_figma_url: fetch, parse, render; any exception is caught
parse_figma_url(url, api, remote) ==
    LET figma_data == fetch_figma_data(url, api, remote)
        parsed_structure == parse_figma_structure(figma_data.json)
    IN IF figma_data.status # "ok" THEN ErrorContent
       ELSE IF parsed_structure.status # "ok" THEN ErrorContent
       ELSE generate_dynamic_content(parsed_structure)

\* ------------- services/pdf_service.py, services/dynamic_pdf_generator.py
OutputDir == <<"g", "e", "n", "e", "r", "a", "t", "e", "d", "_", "p", "d", "f", "s">>

\* datetime.now().strftime("%Y%m%d_%H%M%S") at second t after 12:00:00
\* of 2025-01-01: the text changes once a second
strftime(t) == <<"2", "0", "2", "5", "0", "1", "0", "1", "_", "1", "2", "0", "0">> \o <<HexDigits[(t \div 10) + 1], HexDigits[(t % 10) + 1]>>

PdfSuffix == <<".", "p", "d", "f">>

\* os.path.join(a, b): b alone when b is absolute
path_join(a, b) == IF b # << >> /\ b[1] = "/" THEN b ELSE a \o <<"/">> \o b

\* c if c.isalnum() or c in ('-', '_', '.') else '_'
safe_char(c) == IF c \in AlnumClass \cup {"-", "_", "."} THEN c ELSE "_"

\* generate_pdf_from_structure: the pdf_path it writes to and returns,
\* for the structure parse_figma_file_from_url returned, at second t
generate_pdf_from_structure(struct, t) ==
    LET fname == str_text(struct.structure.file_name) \o <<"_">> \o struct.document_hash
                 \o <<"_">> \o strftime(t) \o PdfSuffix
        safe_name == [i \in 1..Len(fname) |-> safe_char(fname[i])]
    IN path_join(OutputDir, safe_name)

\* str.replace(' ', '_')
replace_spaces(s) == [i \in 1..Len(s) |-> IF s[i] = " " THEN "_" ELSE s[i]]

\* generate_dynamic_pdf: the pdf_path it writes to and returns, for the
\* content parse_figma_url returned, at second t
generate_dynamic_pdf(figma_data, t) ==
    LET file_name == replace_spaces(figma_data.file_name)
        pdf_filename == file_name \o <<"_">> \o figma_data.content_hash
                        \o <<"_">> \o strftime(t) \o PdfSuffix
    IN path_join(OutputDir, pdf_filename)

\* the directory part of a path, component by component
RECURSIVE split_path(_, _, _)
split_path(path, i, part) ==
    IF i > Len(path) THEN <<part>>
    ELSE IF path[i] = "/" THEN <<part>> \o split_path(path, i + 1, << >>)
    ELSE split_path(path, i + 1, Append(part, path[i]))

\* SimpleDocTemplate.build opens pdf_path for writing: the file system
\* has output_dir (made by os.makedirs) and the directories above it, and
\* no directory below it
can_open(pdf_path) ==
    LET parts_ == split_path(pdf_path, 1, << >>)
    IN /\ parts_[1] = OutputDir
       /\ \A k \in 2..(Len(parts_) - 1) : parts_[k] \in { <<".">>, <<".", ".">> }

\* ------------------------------------------------------------- main.py
\* patterns[0]: figma\.com/(?:file|design|proto)/([a-zA-Z0-9]+)
Pattern1Literals_board ==
    { <<"f", "i", "g", "m", "a", ".", "c", "o", "m", "/", "f", "i", "l", "e", "/">>, <<"f", "i", "g", "m", "a", ".", "c", "o", "m", "/", "d", "e", "s", "i", "g", "n", "/">>, <<"f", "i", "g", "m", "a", ".", "c", "o", "m", "/", "p", "r", "o", "t", "o", "/">>, <<"f", "i", "g", "m", "a", ".", "c", "o", "m", "/", "b", "o", "a", "r", "d", "/">> }
Pattern1Literals ==
    { <<"f", "i", "g", "m", "a", ".", "c", "o", "m", "/", "f", "i", "l", "e", "/">>, <<"f", "i", "g", "m", "a", ".", "c", "o", "m", "/", "d", "e", "s", "i", "g", "n", "/">>, <<"f", "i", "g", "m", "a", ".", "c", "o", "m", "/", "p", "r", "o", "t", "o", "/">> }
\* patterns[1]: figma\.com/community/file/(\d+)
Pattern2Literals == { <<"f", "i", "g", "m", "a", ".", "c", "o", "m", "/", "c", "o", "m", "m", "u", "n", "i", "t", "y", "/", "f", "i", "l", "e", "/">> }
\* [a-zA-Z0-9] written without the digits
Pattern1Class_letters == Lower \cup Upper
Pattern1Class == AlnumClass

extract_figma_key(url) ==
    LET m1 == re_search(Pattern1Literals, Pattern1Class, url)
        m2 == re_search(Pattern2Literals, DigitClass, url)
    IN IF m1.matched THEN [status |-> "ok", value |-> split_first(m1.group, ":")]
       ELSE IF m2.matched THEN [status |-> "ok", value |-> split_first(m2.group, ":")]
       ELSE Raised("ValueError")

\* ---------------------------------------------------------- input URLs
Scheme == <<"h", "t", "t", "p", "s", ":", "/", "/">>
Hosts == { <<"w", "w", "w", ".", "f", "i", "g", "m", "a", ".", "c", "o", "m">>, <<"f", "i", "g", "m", "a", ".", "c", "o", "m">>, <<"e", "x", "a", "m", "p", "l", "e", ".", "c", "o", "m">> }
FigmaHosts == { <<"w", "w", "w", ".", "f", "i", "g", "m", "a", ".", "c", "o", "m">>, <<"f", "i", "g", "m", "a", ".", "c", "o", "m">> }
EditorShapes == { <<"f", "i", "l", "e">>, <<"d", "e", "s", "i", "g", "n">>, <<"p", "r", "o", "t", "o">> }
CommunityShape == <<"c", "o", "m", "m", "u", "n", "i", "t", "y", "/", "f", "i", "l", "e">>
OtherShapes == { <<"b", "o", "a", "r", "d">>, <<>> }
Shapes == EditorShapes \cup {CommunityShape} \cup OtherShapes
NumericKeys == { <<"2", "0", "2", "4">> }
AlnumKeys == { <<"A", "B", "C", "1", "2", "3">>, <<"k", "9">> } \cup NumericKeys
OtherKeys == { <<"n", "o", "t", "-", "f", "i", "g", "m", "a">> }
Keys == AlnumKeys \cup OtherKeys
Versions == { <<>>, <<":", "4", "5">> }
Tails == { <<>>, <<"/", "M", "y", "-", "A", "p", "p">>, <<"/", "f", "i", "l", "e", "/", "z", "z", "9">> }
Pads == { <<>>, <<" ">> }

MkUrl(pt) ==
    Scheme \o pt.host \o <<"/">> \o (IF pt.shape = <<>> THEN <<>> ELSE pt.shape \o <<"/">>)
    \o pt.key \o pt.version \o pt.tail \o pt.pad

UrlParts ==
    [host : Hosts, shape : Shapes, key : Keys, version : Versions, tail : Tails, pad : Pads]

\* the URLs the extraction entry point is called with
FileUrls == { Scheme \o <<"w", "w", "w", ".", "f", "i", "g", "m", "a", ".", "c", "o", "m", "/", "f", "i", "l", "e", "/", "A", "B", "C", "1", "2", "3">>, Scheme \o <<"w", "w", "w", ".", "f", "i", "g", "m", "a", ".", "c", "o", "m", "/", "f", "i", "l", "e", "/", "k", "9", "/", "M", "y", "-", "A", "p", "p">> }

\* the file the Figma API serves while URLs are exercised
RemoteFile ==
    MkPayload([kind |-> "mapping",
               children |-> Label(<< MkNode(Proto("CANVAS", "Home", AbsentS, Absent, NoBox),
                                            << MkNode(Proto("FRAME", "Login", AbsentS, Absent, FullBox), <<>>) >>) >>,
                                  <<>>)],
              <<>>, MetaFull)

\* POST /generate (generate_pdf_simple) with the request's figma_url;
\* fetch_status is how the Figma API answers, pdf_ok whether the PDF
\* could be written.  The answer is [n, status, source].
generate_pdf_simple(raw_url, fetch_status, pdf_ok) ==
    LET url == strip(raw_url)
        key == extract_figma_key(url)
        file_id == file_id_from_url(url)
        data == parse_figma_file_from_url(url, [status |-> fetch_status, json |-> file_json])
    IN IF key.status # "ok"
       THEN [status |-> "400", source |-> "none", fetched |-> 0, written |-> 0]
       ELSE [status |-> IF pdf_ok THEN "200" ELSE "500",
             source |-> IF data.status = "ok" THEN "figma" ELSE "fallback",
             fetched |-> IF file_id.status = "ok" THEN 1 ELSE 0,
             written |-> IF pdf_ok THEN 1 ELSE 0]

\* --------------------------------------------- main.py: get_figma_file
\* The statuses the Figma API answers with here: the file (200), another
\* success status (204), a redirect status (304), rate limiting (429),
\* and client and server errors (403, 500).
Statuses == {"200", "204", "304", "403", "429", "500"}
\* The Retry-After header: missing, delay seconds, or an HTTP date.
RetryAfters == {Absent, "2", "Wed, 01 Jan 2025 12:00:00 GMT"}

NoResponse == [status |-> "none", retry_after |-> Absent]
NoFrame ==
    [pc |-> "idle", max_retries |-> 0, attempt |-> 0, response |-> NoResponse,
     sent |-> 0, seen |-> << >>, waits |-> << >>, result |-> "none"]

\* int(response.headers.get('Retry-After', 60))
retry_after(response) ==
    IF response.retry_after = Absent THEN [status |-> "ok", value |-> 60]
    ELSE IF response.retry_after = "2" THEN [status |-> "ok", value |-> 2]
    ELSE Raised("ValueError")

\* response.raise_for_status(): raises for 4xx and 5xx, returns for 2xx;
\* for 3xx it raises in httpx releases that treat every non-2xx status
\* as an error and returns in the older ones
raise_for_status(response) ==
    CASE response.status \in {"403", "500"} -> {"HTTPStatusError"}
      [] response.status = "304" -> {"HTTPStatusError", "returns"}
      [] OTHER -> {"returns"}

\* "for attempt in range(max_retries)": the next attempt starts, or the
\* loop is over and line 74 raises HTTPException(429, "Figma API rate
\* limited after retries. Try again later.")
NextAttempt ==
    /\ gff.pc = "for"
    /\ gff' = IF gff.attempt < gff.max_retries
              THEN [gff EXCEPT !.pc = "get"]
              ELSE [gff EXCEPT !.pc = "done", !.result = "HTTPException 429 rate limited after retries"]
    /\ UNCHANGED extract_vars
    /\ UNCHANGED url_vars
    /\ UNCHANGED entry_vars
    /\ UNCHANGED pdf_vars

\* response = httpx.get(url, headers=headers): one request is sent and
\* the API answers
SendGet ==
    /\ gff.pc = "get"
    /\ \E status \in Statuses, header \in RetryAfters :
          gff' = [gff EXCEPT !.pc = "check",
                             !.response = [status |-> status, retry_after |-> header],
                             !.sent = @ + 1,
                             !.seen = Append(@, [status |-> status, retry_after |-> header])]
    /\ UNCHANGED extract_vars
    /\ UNCHANGED url_vars
    /\ UNCHANGED entry_vars
    /\ UNCHANGED pdf_vars

\* lines 60-72: 200 returns response.json(); 429 computes wait_time and
\* calls time.sleep, where the name time is bound to nothing in main.py
\* (the module imports os, json, re, fastapi, pydantic, uvicorn, dotenv
\* and httpx), so the call raises NameError before any wait; any other
\* status goes through raise_for_status and, when that returns, on to
\* the next attempt
CheckResponse ==
    /\ gff.pc = "check"
    /\ \/ /\ gff.response.status = "200"
          /\ gff' = [gff EXCEPT !.pc = "done", !.result = "json"]
       \/ /\ gff.response.status = "429"
          /\ gff' = [gff EXCEPT !.pc = "done",
                                !.result = IF retry_after(gff.response).status = "ok"
                                           THEN "NameError" ELSE "ValueError"]
       \/ /\ gff.response.status \notin {"200", "429"}
          /\ \E outcome \in raise_for_status(gff.response) :
                gff' = IF outcome = "returns"
                       THEN [gff EXCEPT !.pc = "for", !.attempt = @ + 1]
                       ELSE [gff EXCEPT !.pc = "done", !.result = outcome]
    /\ UNCHANGED extract_vars
    /\ UNCHANGED url_vars
    /\ UNCHANGED entry_vars
    /\ UNCHANGED pdf_vars

\* ------------------------------------------------------------- behaviour
NotCalled == [status |-> "none"]
NoParts == [host |-> <<>>, shape |-> <<>>, key |-> <<>>, version |-> <<>>, tail |-> <<>>, pad |-> <<>>]
NoAnswer == [n |-> 0, status |-> "none", source |-> "none"]
NoRequest == [entry |-> "none", api |-> "none"]

\* extraction: any payload, no URL traffic
Init ==
    /\ file_json \in Payloads
    /\ svc = NotCalled
    /\ prs = NotCalled
    /\ pff = NotCalled
    /\ calls = 0
    /\ figma_url = <<>>
    /\ parts = NoParts
    /\ key_out = NotCalled
    /\ fid_out = NotCalled
    /\ resp = NoAnswer
    /\ fetches = 0
    /\ pdfs = 0
    /\ llm = NotCalled
    /\ pfu = NotCalled
    /\ req = NoRequest
    /\ json_in = NoJson
    /\ llm_json = NotCalled
    /\ now = 0
    /\ jobs = << >>
    /\ gff = NoFrame

\* a caller runs extract_structure on the payload
CallExtractStructure ==
    /\ calls < MaxCalls
    /\ svc' = extract_structure(file_json)
    /\ file_json' = file_json_after_extract(file_json)
    /\ calls' = calls + 1
    /\ UNCHANGED <<prs, pff>>
    /\ UNCHANGED url_vars
    /\ UNCHANGED entry_vars
    /\ UNCHANGED side_vars

\* a caller runs parse_figma_structure on the payload
CallParseFigmaStructure ==
    /\ calls < MaxCalls
    /\ prs' = parse_figma_structure(file_json)
    /\ file_json' = file_json_after_parse(file_json)
    /\ calls' = calls + 1
    /\ UNCHANGED <<svc, pff>>
    /\ UNCHANGED url_vars
    /\ UNCHANGED entry_vars
    /\ UNCHANGED side_vars

\* a caller runs parse_figma_file_from_url; the Figma API answers with
\* the payload or with an error status
CallParseFigmaFileFromUrl ==
    /\ calls < MaxCalls
    /\ \E url \in FileUrls, fetch_status \in {"ok", "HTTPError"} :
          pff' = parse_figma_file_from_url(url, [status |-> fetch_status, json |-> file_json])
    /\ calls' = calls + 1
    /\ UNCHANGED <<file_json, svc, prs>>
    /\ UNCHANGED url_vars
    /\ UNCHANGED entry_vars
    /\ UNCHANGED side_vars

Next == CallExtractStructure \/ CallParseFigmaStructure \/ CallParseFigmaFileFromUrl

Spec == Init /\ [][Next]_vars

\* URL handling: any URL, one remote file
InitUrl ==
    /\ file_json = RemoteFile
    /\ svc = NotCalled
    /\ prs = NotCalled
    /\ pff = NotCalled
    /\ calls = 0
    /\ parts \in UrlParts
    /\ figma_url = MkUrl(parts)
    /\ key_out = NotCalled
    /\ fid_out = NotCalled
    /\ resp = NoAnswer
    /\ fetches = 0
    /\ pdfs = 0
    /\ llm = NotCalled
    /\ pfu = NotCalled
    /\ req = NoRequest
    /\ json_in = NoJson
    /\ llm_json = NotCalled
    /\ now = 0
    /\ jobs = << >>
    /\ gff = NoFrame

CallExtractFigmaKey ==
    /\ key_out.status = "none"
    /\ key_out' = extract_figma_key(figma_url)
    /\ UNCHANGED <<figma_url, parts, fid_out, resp, fetches, pdfs>>
    /\ UNCHANGED extract_vars
    /\ UNCHANGED entry_vars
    /\ UNCHANGED side_vars

CallFileIdFromUrl ==
    /\ fid_out.status = "none"
    /\ fid_out' = file_id_from_url(figma_url)
    /\ UNCHANGED <<figma_url, parts, key_out, resp, fetches, pdfs>>
    /\ UNCHANGED extract_vars
    /\ UNCHANGED entry_vars
    /\ UNCHANGED side_vars

PostGenerate ==
    /\ resp.n < MaxRequests
    /\ \E answer \in { generate_pdf_simple(figma_url, fetch_status, pdf_ok) :
                        fetch_status \in {"ok", "HTTPError"}, pdf_ok \in BOOLEAN } :
          /\ resp' = [n |-> resp.n + 1, status |-> answer.status, source |-> answer.source]
          /\ fetches' = fetches + answer.fetched
          /\ pdfs' = pdfs + answer.written
    /\ UNCHANGED <<figma_url, parts, key_out, fid_out>>
    /\ UNCHANGED extract_vars
    /\ UNCHANGED entry_vars
    /\ UNCHANGED side_vars

NextUrl == CallExtractFigmaKey \/ CallFileIdFromUrl \/ PostGenerate

SpecUrl == InitUrl /\ [][NextUrl]_vars

\* entry points: a URL, and a remote file that is edited between requests
DesignUrl == Scheme \o <<"w", "w", "w", ".", "f", "i", "g", "m", "a", ".", "c", "o", "m", "/", "d", "e", "s", "i", "g", "n", "/", "A", "B", "C", "1", "2", "3", ":", "4", "5", "/", "M", "y", "-", "A", "p", "p">>
OtherUrl == Scheme \o <<"e", "x", "a", "m", "p", "l", "e", ".", "c", "o", "m", "/", "n", "o", "t", "-", "f", "i", "g", "m", "a">>
ProtoUrl == Scheme \o <<"f", "i", "g", "m", "a", ".", "c", "o", "m", "/", "p", "r", "o", "t", "o", "/", "k", "9", "/", "M", "y", "-", "A", "p", "p">>
EntryUrls == FileUrls \cup {DesignUrl, ProtoUrl, OtherUrl}

\* the remote file, the same file after a frame was added, and after
\* everything was deleted from it
RemoteFileEdited ==
    [MkPayload([kind |-> "mapping",
                children |-> Label(<< MkNode(CanvasHome,
                                             << MkNode(FrameLogin, <<>>),
                                                MkNode(Proto("FRAME", "Signup", AbsentS, Absent, FullBox),
                                                       << MkNode(TextWelcome, <<>>) >>) >>) >>,
                                   <<>>)],
               <<>>, MetaFull) EXCEPT !.lastModified = <<"t", "2">>]
RemoteFileEmptied ==
    [MkPayload([kind |-> "mapping", children |-> <<>>], <<>>, MetaFull)
        EXCEPT !.lastModified = <<"t", "3">>]
\* the same file after its frame lost its name
RemoteFileUnnamed ==
    [MkPayload([kind |-> "mapping",
                children |-> Label(<< MkNode(CanvasHome,
                                             << MkNode(Proto("FRAME", Absent, AbsentS, Absent, FullBox), <<>>) >>) >>,
                                   <<>>)],
               <<>>, MetaFull) EXCEPT !.lastModified = <<"t", "4">>]
RemoteFiles == {RemoteFile, RemoteFileEdited, RemoteFileEmptied, RemoteFileUnnamed}

\* both services send the GET once, after their /file/ pattern matched
GetsSent(url) == IF re_search(FileLiteral, AlnumClass, url).matched THEN 1 ELSE 0

InitFetch ==
    /\ file_json \in RemoteFiles
    /\ svc = NotCalled
    /\ prs = NotCalled
    /\ pff = NotCalled
    /\ calls = 0
    /\ figma_url \in EntryUrls
    /\ parts = NoParts
    /\ key_out = NotCalled
    /\ fid_out = NotCalled
    /\ resp = NoAnswer
    /\ fetches = 0
    /\ pdfs = 0
    /\ llm = NotCalled
    /\ pfu = NotCalled
    /\ req = NoRequest
    /\ json_in = NoJson
    /\ llm_json = NotCalled
    /\ now = 0
    /\ jobs = << >>
    /\ gff = NoFrame

\* the design is edited at Figma
RemoteEdit ==
    /\ file_json' \in RemoteFiles \ {file_json}
    /\ UNCHANGED <<svc, prs, pff, calls>>
    /\ UNCHANGED url_vars
    /\ UNCHANGED entry_vars
    /\ UNCHANGED side_vars

RequestParseFigmaFileFromUrl ==
    /\ calls < MaxCalls
    /\ \E api \in ApiAnswers :
          /\ pff' = parse_figma_file_from_url(figma_url, fetch_figma_file(api, file_json))
          /\ req' = [entry |-> "parse_figma_file_from_url", api |-> api]
    /\ fetches' = fetches + GetsSent(figma_url)
    /\ calls' = calls + 1
    /\ UNCHANGED <<file_json, svc, prs, figma_url, parts, key_out, fid_out, resp, pdfs, llm, pfu, json_in, llm_json>>
    /\ UNCHANGED side_vars

RequestParseFigmaWithLlm ==
    /\ calls < MaxCalls
    /\ \E api \in ApiAnswers :
          /\ llm' = parse_figma_with_llm(figma_url, api, file_json)
          /\ req' = [entry |-> "parse_figma_with_llm", api |-> api]
    /\ fetches' = fetches + GetsSent(figma_url)
    /\ calls' = calls + 1
    /\ UNCHANGED <<file_json, svc, prs, pff, figma_url, parts, key_out, fid_out, resp, pdfs, pfu, json_in, llm_json>>
    /\ UNCHANGED side_vars

RequestParseFigmaUrl ==
    /\ calls < MaxCalls
    /\ \E api \in ApiAnswers :
          /\ pfu' = parse_figma_url(figma_url, api, file_json)
          /\ req' = [entry |-> "parse_figma_url", api |-> api]
    /\ fetches' = fetches + GetsSent(figma_url)
    /\ calls' = calls + 1
    /\ UNCHANGED <<file_json, svc, prs, pff, figma_url, parts, key_out, fid_out, resp, pdfs, llm, json_in, llm_json>>
    /\ UNCHANGED side_vars

NextFetch ==
    RemoteEdit \/ RequestParseFigmaFileFromUrl \/ RequestParseFigmaWithLlm \/ RequestParseFigmaUrl

SpecFetch == InitFetch /\ [][NextFetch]_vars

\* uploads: POST /api/generate-pdf hands the uploaded report_file to
\* parse_figma_with_llm as json_data
\* what a client uploads as report_file: nothing, or a mapping with
\* values that count as true (text, a list of pages, a number) and values
\* that count as false ("", [], 0, null), under keys the record has and
\* under keys it has not
CustomPage == [name |-> "Custom Flow", key_frames |-> << >>]
JsonDatas ==
    { NoJson,
      [name |-> JStr(<<"S", "h", "o", "p">>), description |-> JStr(<< >>), pages |-> JList(<< >>), version |-> JInt(2)],
      [name |-> JNull, pages |-> JList(<<CustomPage>>), priority |-> JInt(0), author |-> JStr(<<"A", "n", "n">>)],
      [project_name |-> JStr(<< >>), category |-> JNull, notes |-> JList(<< >>), draft |-> JNull] }

RequestParseFigmaWithLlmJsonData ==
    /\ calls < MaxCalls
    /\ \E api \in ApiAnswers, json_data \in JsonDatas :
          /\ llm_json' = parse_figma_with_llm_json_data(figma_url, json_data, api, file_json)
          /\ json_in' = json_data
          /\ req' = [entry |-> "parse_figma_with_llm_json_data", api |-> api]
    /\ fetches' = fetches + GetsSent(figma_url)
    /\ calls' = calls + 1
    /\ UNCHANGED <<file_json, svc, prs, pff, figma_url, parts, key_out, fid_out, resp, pdfs, llm, pfu>>
    /\ UNCHANGED side_vars

MergeUrls == FileUrls \cup {DesignUrl}

InitMerge ==
    /\ file_json \in {RemoteFile, RemoteFileEdited, RemoteFileUnnamed}
    /\ svc = NotCalled
    /\ prs = NotCalled
    /\ pff = NotCalled
    /\ calls = 0
    /\ figma_url \in MergeUrls
    /\ parts = NoParts
    /\ key_out = NotCalled
    /\ fid_out = NotCalled
    /\ resp = NoAnswer
    /\ fetches = 0
    /\ pdfs = 0
    /\ llm = NotCalled
    /\ pfu = NotCalled
    /\ req = NoRequest
    /\ json_in = NoJson
    /\ llm_json = NotCalled
    /\ now = 0
    /\ jobs = << >>
    /\ gff = NoFrame

NextMerge == RequestParseFigmaWithLlmJsonData

SpecMerge == InitMerge /\ [][NextMerge]_vars

\* PDF requests: the files a designer may have named at will
NamedFile(name) == [RemoteFile EXCEPT !.name = name]
\* a file with two pages of the same name, a frame on each
TwoHomesFile ==
    MkPayload([kind |-> "mapping",
               children |-> Label(<< MkNode(CanvasHome, << MkNode(FrameLogin, << >>) >>),
                                     MkNode(CanvasHome, << MkNode(FrameHidden, << >>) >>) >>,
                                  << >>)],
              << >>, MetaFull)
PdfFiles ==
    { TwoHomesFile, NamedFile(<<"M", "y", " ", "A", "p", "p">>), NamedFile(<<".", ".", "/", "u", "p">>), NamedFile(<<"a", "/", "b">>), NamedFile(<<"a", "\\", "b">>) }

InitPdf ==
    /\ file_json \in PdfFiles
    /\ svc = NotCalled
    /\ prs = NotCalled
    /\ pff = NotCalled
    /\ calls = 0
    /\ figma_url \in FileUrls
    /\ parts = NoParts
    /\ key_out = NotCalled
    /\ fid_out = NotCalled
    /\ resp = NoAnswer
    /\ fetches = 0
    /\ pdfs = 0
    /\ llm = NotCalled
    /\ pfu = NotCalled
    /\ req = NoRequest
    /\ json_in = NoJson
    /\ llm_json = NotCalled
    /\ now = 0
    /\ jobs = << >>
    /\ gff = NoFrame

\* a second passes
Tick ==
    /\ now < MaxClock
    /\ now' = now + 1
    /\ UNCHANGED jobs
    /\ UNCHANGED extract_vars
    /\ UNCHANGED url_vars
    /\ UNCHANGED entry_vars
    /\ UNCHANGED retry_vars

\* POST /api/generate_pdf_from_figma up to the point where
\* generate_pdf_from_structure has chosen pdf_path; a failed
\* parse_figma_file_from_url ends the request with status 400
StartPdfFromStructure ==
    /\ calls < MaxJobs
    /\ \E api \in {"200", "403"} :
          /\ pff' = parse_figma_file_from_url(figma_url, fetch_figma_file(api, file_json))
          /\ req' = [entry |-> "generate_pdf_from_figma", api |-> api]
    /\ jobs' = IF pff'.status = "ok"
               THEN Append(jobs, [generator |-> "generate_pdf_from_structure",
                                  path |-> generate_pdf_from_structure(pff', now),
                                  state |-> "open"])
               ELSE jobs
    /\ fetches' = fetches + GetsSent(figma_url)
    /\ calls' = calls + 1
    /\ UNCHANGED <<file_json, svc, prs, figma_url, parts, key_out, fid_out, resp, pdfs, llm, pfu, json_in, llm_json, now>>
    /\ UNCHANGED retry_vars

\* POST /api/generate_dynamic_pdf up to the point where
\* generate_dynamic_pdf has chosen pdf_path
StartDynamicPdf ==
    /\ calls < MaxJobs
    /\ \E api \in {"200", "403"} :
          /\ pfu' = parse_figma_url(figma_url, api, file_json)
          /\ req' = [entry |-> "generate_dynamic_pdf", api |-> api]
    /\ jobs' = Append(jobs, [generator |-> "generate_dynamic_pdf",
                             path |-> generate_dynamic_pdf(pfu', now),
                             state |-> "open"])
    /\ fetches' = fetches + GetsSent(figma_url)
    /\ calls' = calls + 1
    /\ UNCHANGED <<file_json, svc, prs, pff, figma_url, parts, key_out, fid_out, resp, pdfs, llm, json_in, llm_json, now>>
    /\ UNCHANGED retry_vars

\* doc.build(story) of one request: the file at pdf_path is written and
\* the path returned, or opening it fails
BuildPdf ==
    /\ \E i \in 1..Len(jobs) :
          /\ jobs[i].state = "open"
          /\ jobs' = [jobs EXCEPT ![i].state = IF can_open(jobs[i].path) THEN "written" ELSE "failed"]
          /\ pdfs' = pdfs + (IF can_open(jobs[i].path) THEN 1 ELSE 0)
    /\ UNCHANGED <<figma_url, parts, key_out, fid_out, resp, fetches, now>>
    /\ UNCHANGED extract_vars
    /\ UNCHANGED entry_vars
    /\ UNCHANGED retry_vars

NextPdf == Tick \/ StartPdfFromStructure \/ StartDynamicPdf \/ BuildPdf

SpecPdf == InitPdf /\ [][NextPdf]_vars

\* get_figma_file(file_key, max_retries) is called and runs to its end
InitRetry ==
    /\ file_json = RemoteFile
    /\ svc = NotCalled
    /\ prs = NotCalled
    /\ pff = NotCalled
    /\ calls = 0
    /\ figma_url = << >>
    /\ parts = NoParts
    /\ key_out = NotCalled
    /\ fid_out = NotCalled
    /\ resp = NoAnswer
    /\ fetches = 0
    /\ pdfs = 0
    /\ llm = NotCalled
    /\ pfu = NotCalled
    /\ req = NoRequest
    /\ json_in = NoJson
    /\ llm_json = NotCalled
    /\ now = 0
    /\ jobs = << >>
    /\ \E m \in 0..MaxRetries : gff = [NoFrame EXCEPT !.pc = "for", !.max_retries = m]

NextRetry == NextAttempt \/ SendGet \/ CheckResponse

SpecRetry == InitRetry /\ [][NextRetry]_vars

\* one client after another asks for a different design: every request
\* of parse_figma_with_llm names its own URL
InitUnique ==
    /\ file_json \in RemoteFiles
    /\ svc = NotCalled
    /\ prs = NotCalled
    /\ pff = NotCalled
    /\ calls = 0
    /\ figma_url = << >>
    /\ parts = NoParts
    /\ key_out = NotCalled
    /\ fid_out = NotCalled
    /\ resp = NoAnswer
    /\ fetches = 0
    /\ pdfs = 0
    /\ llm = NotCalled
    /\ pfu = NotCalled
    /\ req = NoRequest
    /\ json_in = NoJson
    /\ llm_json = NotCalled
    /\ now = 0
    /\ jobs = << >>
    /\ gff = NoFrame

RequestAnotherDesign ==
    /\ calls < MaxCalls
    /\ \E url \in EntryUrls \ {figma_url}, api \in ApiAnswers :
          /\ figma_url' = url
          /\ llm' = parse_figma_with_llm(url, api, file_json)
          /\ req' = [entry |-> "parse_figma_with_llm", api |-> api]
          /\ fetches' = fetches + GetsSent(url)
    /\ calls' = calls + 1
    /\ UNCHANGED <<file_json, svc, prs, pff, parts, key_out, fid_out, resp, pdfs, pfu, json_in, llm_json>>
    /\ UNCHANGED side_vars

NextUnique == RequestAnotherDesign

SpecUnique == InitUnique /\ [][NextUnique]_vars

\* ---------------------------------------------------------------- claims
\* every node of a forest, at any depth
RECURSIVE NodesOf(_)
NodesOf(forest) ==
    UNION { {forest[i]} \cup NodesOf(forest[i].children) : i \in 1..Len(forest) }

RootChildren == file_json.document.children
CanvasIndexes == { i \in 1..Len(RootChildren) : RootChildren[i].type = "CANVAS" }
\* the nodes located at any depth below a page (a CANVAS child of the root)
BelowPages == UNION { NodesOf(RootChildren[i].children) : i \in CanvasIndexes }
SixTypes == {"FRAME", "COMPONENT", "INSTANCE", "GROUP", "RECTANGLE", "VECTOR"}
LayerNodes == { n \in BelowPages : n.type \in SixTypes }
TextNodes == { n \in BelowPages : n.type = "TEXT" }
Occurrences(recs, id) == Cardinality({ i \in 1..Len(recs) : recs[i].id = id })

\* C1: each extractor produces exactly one layer record for every node of
\* type FRAME, COMPONENT, INSTANCE, GROUP, RECTANGLE or VECTOR below a page,
\* so the number of layer records equals the number of such nodes.
C1_OneLayerPerNode ==
    /\ svc.status = "ok" =>
          /\ Len(svc.layers) = Cardinality(LayerNodes)
          /\ \A n \in LayerNodes : Occurrences(svc.layers, n.id) = 1
    /\ prs.status = "ok" => Len(prs.frames) = Cardinality(LayerNodes)

\* the sequence s restricted to the positions in the set idx, in order
RECURSIVE Pick(_, _, _)
Pick(s, idx, i) ==
    IF i > Len(s) THEN <<>>
    ELSE (IF i \in idx THEN <<s[i]>> ELSE <<>>) \o Pick(s, idx, i + 1)
CanvasChildren == Pick(RootChildren, CanvasIndexes, 1)

\* C2: a document with N CANVAS children of the root yields exactly N
\* page records, in the order of those children.
C2_PagePerCanvas ==
    /\ svc.status = "ok" =>
          /\ Len(svc.pages) = Len(CanvasChildren)
          /\ \A i \in 1..Len(svc.pages) : svc.pages[i].id = CanvasChildren[i].id
    /\ prs.status = "ok" =>
          /\ Len(prs.pages) = Len(CanvasChildren)
          /\ \A i \in 1..Len(prs.pages) : prs.pages[i] = GetOr(CanvasChildren[i].name, "Page")

\* C3: the number of component records equals the number of entries of
\* the payload's components map, whatever the tree contains.
C3_ComponentsFromMap ==
    /\ svc.status = "ok" => Len(svc.components) = Len(file_json.components)
    /\ prs.status = "ok" => Len(prs.components) = Len(file_json.components)

IsBlank(chars) == chars = AbsentS \/ \A i \in 1..Len(chars) : chars[i] = " "
BlankTextNodes == { n \in TextNodes : IsBlank(n.characters) }

\* C4: a TEXT node below a page whose characters are empty, whitespace or
\* absent still has its text record in the output of each extractor.
C4_BlankTextKept ==
    /\ svc.status = "ok" => \A n \in BlankTextNodes : Occurrences(svc.text_nodes, n.id) = 1
    /\ prs.status = "ok" =>
          \A n \in BlankTextNodes : \E i \in 1..Len(prs.text_nodes) : prs.text_nodes[i].name = n.name

\* any raised exception is taken as the MalformedInput condition
Failed(r) == r.status \notin {"none", "ok"}

\* C5: when the document field is missing, null or not a mapping, a call
\* of either extractor fails; it never returns a structure.
C5_MalformedRejected ==
    file_json.document.kind # "mapping" =>
        /\ svc.status # "none" => Failed(svc)
        /\ prs.status # "none" => Failed(prs)

EmptyFile ==
    /\ file_json.document.kind = "mapping"
    /\ file_json.document.children = <<>>
    /\ file_json.components = <<>>

\* C6: a document with an empty children list and an empty components
\* map is extracted without error into zero pages, layers and components.
C6_EmptyFileIsEmptyStructure ==
    EmptyFile =>
        /\ svc.status # "none" =>
              /\ svc.status = "ok"
              /\ svc.pages = <<>> /\ svc.layers = <<>> /\ svc.components = <<>>
        /\ prs.status # "none" =>
              /\ prs.status = "ok"
              /\ prs.pages = <<>> /\ prs.frames = <<>> /\ prs.components = <<>>

C6_Witness == EmptyFile /\ svc.status = "ok" /\ prs.status = "ok"

\* document order of two node paths: p is a proper ancestor of q, or p
\* lies in an earlier sibling subtree (or an earlier page) than q
PathLess(p, q) ==
    \E k \in 1..Len(q) :
        /\ \A j \in 1..(k - 1) : j <= Len(p) /\ p[j] = q[j]
        /\ (k > Len(p) \/ p[k] < q[k])
InDocumentOrder(recs) ==
    \A i, j \in 1..Len(recs) : i < j => PathLess(recs[i].id, recs[j].id)
IsPrefix(p, q) == Len(p) < Len(q) /\ SubSeq(q, 1, Len(p)) = p

\* C7: layer records, and text records, appear in depth-first pre-order:
\* pages in document order, a node before its descendants, a node's whole
\* subtree before its later siblings.
C7_PreOrder ==
    svc.status = "ok" => InDocumentOrder(svc.layers) /\ InDocumentOrder(svc.text_nodes)

\* a layer, a descendant of it and a later sibling of it were all recorded
C7_Witness ==
    /\ svc.status = "ok"
    /\ \E i, j, k \in 1..Len(svc.layers) :
          /\ i < j /\ j < k
          /\ IsPrefix(svc.layers[i].id, svc.layers[j].id)
          /\ Len(svc.layers[k].id) = Len(svc.layers[i].id)
          /\ ~IsPrefix(svc.layers[i].id, svc.layers[k].id)

SupportedFigmaUrl ==
    /\ parts.host \in FigmaHosts
    /\ \/ parts.shape \in EditorShapes /\ parts.key \in AlnumKeys
       \/ parts.shape = CommunityShape /\ parts.key \in NumericKeys

\* C9: for a Figma URL of shape /file/<key>, /design/<key>, /proto/<key>
\* or /community/file/<numeric-key>, extract_figma_key returns exactly
\* <key>, without any ':version' suffix; a returned key never contains ':'.
C9_KeyExtracted ==
    key_out.status # "none" =>
        /\ SupportedFigmaUrl => key_out = [status |-> "ok", value |-> parts.key]
        /\ key_out.status = "ok" => \A i \in 1..Len(key_out.value) : key_out.value[i] # ":"

\* https://www.figma.com/design/ABC123:45/My-App was given and ABC123 returned
C9_Witness ==
    /\ figma_url = Scheme \o <<"w", "w", "w", ".", "f", "i", "g", "m", "a", ".", "c", "o", "m", "/", "d", "e", "s", "i", "g", "n", "/", "A", "B", "C", "1", "2", "3", ":", "4", "5", "/", "M", "y", "-", "A", "p", "p">>
    /\ key_out = [status |-> "ok", value |-> <<"A", "B", "C", "1", "2", "3">>]

\* the URL text contains /file/<key>, /design/<key>, /proto/<key> or
\* /community/file/<numeric-key> somewhere
HasSupportedShape(url) ==
    \E i \in 1..Len(url) :
        \/ \E lit \in { <<"/", "f", "i", "l", "e", "/">>, <<"/", "d", "e", "s", "i", "g", "n", "/">>, <<"/", "p", "r", "o", "t", "o", "/">> } :
              /\ MatchAt(url, i, lit)
              /\ i + Len(lit) <= Len(url)
              /\ url[i + Len(lit)] \in AlnumClass
        \/ /\ MatchAt(url, i, <<"/", "c", "o", "m", "m", "u", "n", "i", "t", "y", "/", "f", "i", "l", "e", "/">>)
           /\ i + 16 <= Len(url)
           /\ url[i + 16] \in Digit

\* C10: for a URL that matches none of the supported shapes both key
\* extractors raise ValueError, and POST /generate answers 400 without
\* fetching or generating anything.
C10_InvalidReference ==
    ~HasSupportedShape(figma_url) =>
        /\ key_out.status # "none" => key_out.status = "ValueError"
        /\ fid_out.status # "none" => fid_out.status = "ValueError"
        /\ resp.n > 0 => resp.status = "400" /\ fetches = 0 /\ pdfs = 0

\* https://example.com/not-figma was rejected by both extractors and by /generate
C10_Witness ==
    /\ figma_url = Scheme \o <<"e", "x", "a", "m", "p", "l", "e", ".", "c", "o", "m", "/", "n", "o", "t", "-", "f", "i", "g", "m", "a">>
    /\ key_out.status = "ValueError"
    /\ fid_out.status = "ValueError"
    /\ resp.n = 1 /\ resp.status = "400"

HasFileSegment(url) ==
    \E i \in 1..Len(url) :
        /\ MatchAt(url, i, <<"/", "f", "i", "l", "e", "/">>)
        /\ i + 6 <= Len(url)
        /\ url[i + 6] \in AlnumClass
FrameNodes == { n \in BelowPages : n.type = "FRAME" }
Answered(api) == api \notin {"none", "200"}
\* visible frames whose name holds no word: convert_figma_to_pdf_format
\* fails on a file that has one
WordlessFrames == { n \in FrameNodes : n.visible # "False" /\ n.name \in {Absent, "", " "} }

\* C12: every request of an entry point with a URL that carries a file id
\* sends its own GET, and what it returns is computed from the file the
\* API holds during that request: after an edit of the remote file the
\* next request reports the edited file, and a failed fetch is never
\* answered from an earlier fetch.
C12_NoCaching ==
    [][ (calls' # calls /\ HasFileSegment(figma_url)) =>
          /\ fetches' = fetches + 1
          /\ (req'.entry = "parse_figma_url" /\ req'.api = "200") =>
                /\ pfu'.raw_data.status = "ok"
                /\ pfu'.file_name = file_json.name
                /\ pfu'.raw_data.last_modified = file_json.lastModified
                /\ Len(pfu'.frames) = Cardinality(FrameNodes)
          /\ (req'.entry = "parse_figma_url" /\ req'.api # "200") => pfu'.raw_data.status # "ok"
          /\ (req'.entry = "parse_figma_file_from_url" /\ req'.api = "200") =>
                /\ pff'.status = "ok"
                /\ pff'.structure.last_modified = file_json.lastModified
                /\ Len(pff'.structure.layers) = Cardinality(LayerNodes)
          /\ (req'.entry = "parse_figma_file_from_url" /\ req'.api # "200") => pff'.status # "ok"
          /\ (req'.entry = "parse_figma_with_llm" /\ req'.api = "200" /\ WordlessFrames = {}) =>
                /\ llm'.source = "figma"
                /\ llm'.name = file_json.name
                /\ Len(llm'.pages[1].key_frames) = (IF FrameNodes = {} THEN 1 ELSE Cardinality(FrameNodes))
          /\ (req'.entry = "parse_figma_with_llm" /\ (req'.api # "200" \/ WordlessFrames # {})) =>
                llm'.source # "figma"
      ]_vars

\* two requests with the same URL were answered from two versions of the file
C12_Witness ==
    /\ HasFileSegment(figma_url)
    /\ calls = 2
    /\ fetches = 2
    /\ pff.status = "ok"
    /\ pfu.status = "ok"
    /\ pff.structure.last_modified = <<"t", "1">>
    /\ pfu.raw_data.status = "ok"
    /\ pfu.raw_data.last_modified = <<"t", "2">>
    /\ Len(pfu.frames) = 2

\* an entry point let the failure reach its caller: it raised, or what it
\* returned says that the fetch failed
Propagated(r) ==
    \/ Failed(r)
    \/ "content_hash" \in DOMAIN r /\ r.content_hash = <<"e", "r", "r", "o", "r">>

\* C13: when the API does not deliver the file (error status, missing
\* token, network error), each entry point passes the failure on to its
\* caller and returns no made-up structure.
C13_FetchFailurePropagated ==
    (Answered(req.api) /\ HasFileSegment(figma_url)) =>
        /\ req.entry = "parse_figma_file_from_url" => Propagated(pff)
        /\ req.entry = "parse_figma_with_llm" => Propagated(llm)
        /\ req.entry = "parse_figma_url" => Propagated(pfu)

StrayIndexes == { i \in 1..Len(RootChildren) : RootChildren[i].type # "CANVAS" }
\* the ids of the non-CANVAS children of the root and of all nodes below them
StrayIds == { n.id : n \in UNION { NodesOf(<<RootChildren[i]>>) : i \in StrayIndexes } }
RecordedIds(recs) == { recs[i].id : i \in 1..Len(recs) }

\* C14: a child of the document root that is not a CANVAS is skipped
\* without error: no page record is made for it and no layer or text
\* record for any node of its subtree.
C14_NonCanvasIgnored ==
    /\ (svc.status # "none" /\ file_json.document.kind = "mapping") =>
          /\ svc.status = "ok"
          /\ RecordedIds(svc.pages) \cap StrayIds = {}
          /\ RecordedIds(svc.layers) \cap StrayIds = {}
          /\ RecordedIds(svc.text_nodes) \cap StrayIds = {}
    /\ (prs.status # "none" /\ file_json.document.kind = "mapping") =>
          /\ prs.status = "ok"
          /\ Len(prs.pages) = Cardinality(CanvasIndexes)
          /\ Len(prs.frames) = Cardinality(FrameNodes)
          /\ \A i \in 1..Len(prs.text_nodes) :
                \E n \in TextNodes : n.name = prs.text_nodes[i].name

\* the CANVAS children of the root whose name is missing or empty
NamelessCanvases == { i \in CanvasIndexes : RootChildren[i].name \in {Absent, ""} }
\* the records of recs made for nodes below the root child at position i
RecordsBelow(recs, i) == { k \in 1..Len(recs) : IsPrefix(RootChildren[i].id, recs[k].id) }

\* C15: no page record has an empty name: a CANVAS whose name is missing
\* or "" becomes a page named "Page", and the layer and text records
\* collected below it name "Page" as their page.
C15_PageNameDefault ==
    /\ svc.status = "ok" =>
          /\ \A k \in 1..Len(svc.pages) : svc.pages[k].name # ""
          /\ \A i \in NamelessCanvases :
                /\ \E k \in 1..Len(svc.pages) :
                      svc.pages[k] = [id |-> RootChildren[i].id, name |-> "Page"]
                /\ \A k \in RecordsBelow(svc.layers, i) : svc.layers[k].page = "Page"
                /\ \A k \in RecordsBelow(svc.text_nodes, i) : svc.text_nodes[k].page = "Page"
    /\ prs.status = "ok" =>
          /\ \A k \in 1..Len(prs.pages) : prs.pages[k] # ""
          /\ \A k \in 1..Len(prs.frames) : prs.frames[k].page # ""
          /\ \A k \in 1..Len(prs.text_nodes) : prs.text_nodes[k].page # ""

AllNodes == NodesOf(RootChildren)
\* the ids of the nodes that have no absoluteBoundingBox
BoxlessIds == { n.id : n \in { m \in AllNodes : m.box.state = "absent" } }
ZeroGeometry(rec) == rec.x = "0" /\ rec.y = "0" /\ rec.width = "0" /\ rec.height = "0"

\* C16: a layer node without geometry is extracted without error and its
\* record has x, y, width and height 0, in both extractors and for every
\* layer type.
C16_MissingGeometryIsZero ==
    /\ svc.status = "ok" =>
          \A k \in 1..Len(svc.layers) :
              svc.layers[k].id \in BoxlessIds => ZeroGeometry(svc.layers[k])
    /\ prs.status = "ok" =>
          \A k \in 1..Len(prs.frames) :
              (\E n \in FrameNodes : n.name = prs.frames[k].name /\ n.box.state = "absent")
                  => ZeroGeometry(prs.frames[k])

\* what an extractor records as the visibility of node n
VisibleOf(n) == IF n.visible = Absent THEN "True" ELSE n.visible
\* the nodes extract_structure walks: everything below a child of the root
WalkedNodes == UNION { NodesOf(RootChildren[i].children) : i \in 1..Len(RootChildren) }
CountWhere(recs, v) == Cardinality({ k \in 1..Len(recs) : recs[k].visible = v })

\* C17: visibility is recorded and never filters.  In extract_structure
\* every walked layer node, hidden or below a hidden node included, has
\* its record with visible = the node's flag (true when the node has
\* none), and every walked TEXT node its text record; in
\* parse_figma_structure the same holds for the FRAME nodes it records.
C17_VisibilityRecorded ==
    /\ svc.status = "ok" =>
          /\ \A n \in { m \in WalkedNodes : m.type \in SixTypes } :
                \E k \in 1..Len(svc.layers) :
                    svc.layers[k].id = n.id /\ svc.layers[k].visible = VisibleOf(n)
          /\ \A n \in { m \in WalkedNodes : m.type = "TEXT" } : n.id \in RecordedIds(svc.text_nodes)
    /\ prs.status = "ok" =>
          \A v \in {"True", "False"} :
              CountWhere(prs.frames, v) = Cardinality({ n \in FrameNodes : VisibleOf(n) = v })

\* a hidden frame, a frame below it and a text below it were all recorded
C17_Witness ==
    /\ svc.status = "ok"
    /\ prs.status = "ok"
    /\ \E i, j \in 1..Len(svc.layers) :
          /\ svc.layers[i].visible = "False"
          /\ IsPrefix(svc.layers[i].id, svc.layers[j].id)
          /\ \E t \in 1..Len(svc.text_nodes) : IsPrefix(svc.layers[i].id, svc.text_nodes[t].id)
    /\ CountWhere(prs.frames, "False") = 1
    /\ CountWhere(prs.frames, "True") = 1

HexChars == { HexDigits[i] : i \in 1..Len(HexDigits) }
IsFingerprint(h) == Len(h) \in 8..12 /\ \A i \in 1..Len(h) : h[i] \in HexChars
\* (fileName, lastModified, number of layer records, number of component records)
TupleOfService(s) == <<s.file_name, s.last_modified, Len(s.layers), Len(s.components)>>
TupleOfParser(s) == <<s.file_name, s.last_modified, Len(s.frames), Len(s.components)>>

\* C18: the fingerprint is 8 to 12 hex characters and depends on the
\* tuple (fileName, lastModified, layer count, component count) only: two
\* extractions with equal tuples have equal fingerprints, whatever URL
\* they were made with.
C18_FingerprintOfTuple ==
    [][ /\ prs'.status = "ok" => IsFingerprint(prs'.content_hash)
        /\ pff'.status = "ok" => IsFingerprint(pff'.document_hash)
        /\ (prs.status = "ok" /\ prs'.status = "ok" /\ TupleOfParser(prs') = TupleOfParser(prs))
              => prs'.content_hash = prs.content_hash
        /\ (pff.status = "ok" /\ pff'.status = "ok"
              /\ TupleOfService(pff'.structure) = TupleOfService(pff.structure))
              => pff'.document_hash = pff.document_hash
      ]_vars

\* C19: text records are made by TEXT nodes only and every TEXT node
\* below a page, at any depth, makes one: each extractor returns as many
\* text records as there are TEXT nodes below the CANVAS pages.
C19_TextRecordPerTextNode ==
    /\ svc.status = "ok" =>
          /\ Len(svc.text_nodes) = Cardinality(TextNodes)
          /\ \A n \in TextNodes : Occurrences(svc.text_nodes, n.id) = 1
          /\ RecordedIds(svc.text_nodes) \subseteq { n.id : n \in { m \in AllNodes : m.type = "TEXT" } }
    /\ prs.status = "ok" =>
          /\ Len(prs.text_nodes) = Cardinality(TextNodes)
          /\ \A k \in 1..Len(prs.text_nodes) :
                \E n \in TextNodes : n.name = prs.text_nodes[k].name

\* the nodes whose parent is the node with this id
DirectChildren(id) == { n \in AllNodes : Len(n.id) = Len(id) + 1 /\ IsPrefix(id, n.id) }
\* the position of FRAME node n among the FRAME nodes below pages, in
\* document order
FrameRank(n) == 1 + Cardinality({ m \in FrameNodes : PathLess(m.id, n.id) })

\* C20: children_count of a layer record is the number of direct
\* children of its node (0 for a node without children), never the
\* number of its descendants.
C20_ChildrenCountIsDirect ==
    /\ svc.status = "ok" =>
          \A k \in 1..Len(svc.layers) :
              /\ svc.layers[k].children_count \in Nat
              /\ svc.layers[k].children_count = Cardinality(DirectChildren(svc.layers[k].id))
    /\ prs.status = "ok" =>
          /\ Len(prs.frames) = Cardinality(FrameNodes)
          /\ \A n \in FrameNodes :
                /\ prs.frames[FrameRank(n)].children_count \in Nat
                /\ prs.frames[FrameRank(n)].children_count = Cardinality(DirectChildren(n.id))

\* a layer with one child and two descendants was recorded by both extractors
C20_Witness ==
    /\ svc.status = "ok"
    /\ prs.status = "ok"
    /\ Len(prs.frames) > 0
    /\ \E k \in 1..Len(svc.layers) :
          /\ svc.layers[k].children_count = 1
          /\ \E t \in 1..Len(svc.text_nodes) :
                /\ IsPrefix(svc.layers[k].id, svc.text_nodes[t].id)
                /\ Len(svc.text_nodes[t].id) = Len(svc.layers[k].id) + 2

\* the URL text contains /file/<key>, /design/<key> or /proto/<key>
HasEditorShape(url) ==
    \E i \in 1..Len(url) :
        \E lit \in { <<"/", "f", "i", "l", "e", "/">>, <<"/", "d", "e", "s", "i", "g", "n", "/">>, <<"/", "p", "r", "o", "t", "o", "/">> } :
            /\ MatchAt(url, i, lit)
            /\ i + Len(lit) <= Len(url)
            /\ url[i + Len(lit)] \in AlnumClass

\* C21: parse_figma_with_llm, called with a URL of shape /file/, /design/
\* or /proto/, never raises, whatever the Figma API answers: it returns a
\* record that has the fields name, project_name and pages, and pages is
\* a list.
C21_AlwaysARecord ==
    (llm.status # "none" /\ HasEditorShape(figma_url)) =>
        /\ llm.status = "ok"
        /\ {"name", "project_name", "pages"} \subseteq DOMAIN llm
        /\ DOMAIN llm.pages = 1..Len(llm.pages)

\* the API refused a /file/ URL's request and the call still returned a
\* record with one page
C21_Witness ==
    /\ HasFileSegment(figma_url)
    /\ req.entry = "parse_figma_with_llm"
    /\ req.api = "403"
    /\ llm.status = "ok"
    /\ Len(llm.pages) = 1
    /\ Len(llm.name) > 0

\* C22: a parse_figma_with_llm call with json_data returns the record of
\* the same call without json_data, except that every json_data key with
\* a true value holds the json_data value; keys with false values ("",
\* [], 0, null) and keys json_data lacks are as in that record.  On the
\* API path and on the fallback path.
C22_JsonMerge ==
    [][ (calls' # calls /\ req'.entry = "parse_figma_with_llm_json_data") =>
          \A plain \in { parse_figma_with_llm(figma_url, req'.api, file_json) } :
          \A base \in { as_dict(plain) } :
          LET got == llm_json'.data
              overriding == { key \in DOMAIN json_in' :
                                 \/ json_in'[key][1] \in {"str", "list"} /\ Len(json_in'[key][2]) > 0
                                 \/ json_in'[key][1] = "int" /\ json_in'[key][2] # 0 }
          IN /\ llm_json'.status = "ok"
             /\ DOMAIN got = DOMAIN base \cup overriding
             /\ \A key \in overriding : got[key] = json_in'[key]
             /\ \A key \in DOMAIN base \ overriding : got[key] = base[key]
      ]_vars

\* an upload with a name, an empty description, an empty page list and a
\* version was merged into the record of a fetched file: name replaced,
\* description and pages kept, version added
C22_Witness ==
    /\ req.entry = "parse_figma_with_llm_json_data"
    /\ llm_json.status = "ok"
    /\ llm_json.source = "figma"
    /\ "version" \in DOMAIN json_in
    /\ json_in.description = JStr(<< >>)
    /\ llm_json.data.name = JStr(<<"S", "h", "o", "p">>)
    /\ Len(llm_json.data.description[2]) > 0
    /\ Len(llm_json.data.pages[2]) = 1
    /\ llm_json.data.version = JInt(2)

\* C23: the records parse_figma_with_llm returns for two different URLs
\* differ in their name fields and differ in their description fields.
C23_UniqueContent ==
    [][ (llm.status = "ok" /\ llm'.status = "ok" /\ figma_url' # figma_url) =>
            /\ llm'.name # llm.name
            /\ llm'.description # llm.description ]_vars

\* C24: any two PDF requests, one after the other or overlapping, also
\* for the same document within one second, write to different paths.
C24_DistinctPaths ==
    \A i, j \in 1..Len(jobs) : i # j => jobs[i].path # jobs[j].path

\* the text after the last "/" of a path, and the text before it
Basename(path) == split_path(path, 1, << >>)[Len(split_path(path, 1, << >>))]
Dirname(path) == SubSeq(path, 1, Len(path) - Len(Basename(path)) - 1)

\* C29: the path a PDF generator returns names a file directly inside
\* output_dir, whatever the name of the Figma file is: what follows
\* output_dir holds neither "/" nor "\".
C29_InsideOutputDir ==
    \A i \in 1..Len(jobs) :
        jobs[i].state = "written" =>
            /\ Dirname(jobs[i].path) = OutputDir
            /\ \A k \in 1..Len(Basename(jobs[i].path)) : Basename(jobs[i].path)[k] # "\\"

\* the responses get_figma_file has dealt with: all but one it is still
\* looking at
Handled == { k \in 1..Len(gff.seen) : k < Len(gff.seen) \/ gff.pc # "check" }
Ended == gff.pc = "done"
RateLimited == "HTTPException 429 rate limited after retries"

\* C25: get_figma_file ends after at most max_retries requests; it
\* returns the payload at the first 200 response and sends nothing after
\* it; when every response is 429 it sends exactly max_retries requests
\* and then fails with the 429 "rate limited after retries" error.
C25_BoundedRetries ==
    /\ gff.sent <= gff.max_retries
    /\ \A k \in Handled :
          gff.seen[k].status = "200" => Ended /\ gff.result = "json" /\ Len(gff.seen) = k
    /\ (Ended /\ \A k \in 1..Len(gff.seen) : gff.seen[k].status = "429") =>
          /\ gff.sent = gff.max_retries
          /\ gff.result = RateLimited

RECURSIVE Pow2(_)
Pow2(k) == IF k = 0 THEN 1 ELSE 2 * Pow2(k - 1)
\* the seconds a Retry-After header asks for, 60 without the header
AskedSeconds(r) == IF r.retry_after = Absent THEN 60 ELSE 2
\* how many of the first k responses were 429
RateLimitsUpTo(k) == Cardinality({ i \in 1..k : gff.seen[i].status = "429" })

\* C26: a 429 response on attempt k (counted from 0) with a Retry-After
\* of s seconds (60 without the header) is followed by a wait of
\* s * 2^k seconds and, when k < max_retries - 1, by the next request.
C26_BackoffWaits ==
    \A n \in Handled :
        (gff.seen[n].status = "429" /\ gff.seen[n].retry_after \in {Absent, "2"}) =>
            /\ Len(gff.waits) >= RateLimitsUpTo(n)
            /\ gff.waits[RateLimitsUpTo(n)] = AskedSeconds(gff.seen[n]) * Pow2(n - 1)
            /\ (n < gff.max_retries /\ Ended) => Len(gff.seen) > n

\* C27: the "rate limited after retries" error comes only after
\* max_retries responses that all were 429; a response with any status
\* other than 200 and 429 ends the call at once with the error of that
\* status, is not retried and is not reported as rate limiting.
C27_RateLimitOnlyAfter429s ==
    /\ gff.result = RateLimited =>
          /\ Len(gff.seen) = gff.max_retries
          /\ \A k \in 1..Len(gff.seen) : gff.seen[k].status = "429"
    /\ \A k \in Handled :
          gff.seen[k].status \notin {"200", "429"} =>
              /\ Ended
              /\ Len(gff.seen) = k
              /\ gff.result = "HTTPStatusError"

\* C28: a URL extract_figma_key accepts is accepted by file_id_from_url
\* too, with the same key, so every request POST /generate accepts
\* reaches the Figma API and none is answered with fallback content for
\* the shape of its URL.
C28_ValidatorAgreesWithFetch ==
    /\ (key_out.status = "ok" /\ fid_out.status # "none") =>
          /\ fid_out.status = "ok"
          /\ fid_out.value = key_out.value
    /\ (resp.n > 0 /\ resp.status # "400") => fetches = resp.n

RECURSIVE SumFrames(_, _)
SumFrames(lines, i) == IF i > Len(lines) THEN 0 ELSE lines[i].frames + SumFrames(lines, i + 1)

\* C30: in what parse_figma_structure and generate_dynamic_content build,
\* the per-page frame counts of page_structure add up to total_frames
\* (the "Screen Count"), and total_pages, total_frames, total_components
\* and total_text_nodes are the lengths of pages, frames, components and
\* text_nodes; also when two pages have the same name.
C30_FramesCountedOnce ==
    (pfu.status = "ok" /\ pfu.raw_data.status = "ok") =>
        /\ pfu.raw_data.total_pages = Len(pfu.raw_data.pages)
        /\ pfu.raw_data.total_frames = Len(pfu.raw_data.frames)
        /\ pfu.raw_data.total_components = Len(pfu.raw_data.components)
        /\ pfu.raw_data.total_text_nodes = Len(pfu.raw_data.text_nodes)
        /\ Len(pfu.page_structure) = pfu.raw_data.total_pages
        /\ SumFrames(pfu.page_structure, 1) = pfu.raw_data.total_frames
====
